---- MODULE Spec2Model ----
(***************************************************************************)
(* Model of backend/src/rate_limiting.py: TokenBucket, CircuitBreaker and  *)
(* AdaptiveRateLimiter, driven by asyncio tasks.                           *)
(*                                                                         *)
(* Numbers.  Python floats are modelled in fixed point: tokens, capacity   *)
(* and rates are integers counting 1/TokScale of a token (per second for   *)
(* rates); a product with a factor truncates.  Time is observed on a grid  *)
(* of TicksPerSec ticks per second.  Instead of the absolute time.time()   *)
(* the state holds the differences the code computes from it:              *)
(*   bucket.age          = time.time() - last_refill                       *)
(*   breaker.age         = time.time() - last_failure_time                 *)
(*   task[t].timer       = time left of the asyncio.sleep the task is in   *)
(* An age stops growing once a larger value cannot change any result the   *)
(* code computes from it.                                                  *)
(*                                                                         *)
(* Scheduling.  asyncio runs one task at a time and switches only at an    *)
(* await that suspends, so each action is the code between two such        *)
(* points.  The bucket lock is part of the bucket's state; it is free at   *)
(* every suspension point (C27), so "async with self._lock" never suspends.*)
(***************************************************************************)
EXTENDS Integers, Sequences, FiniteSets, TLC

\* ---------------------------------------------------------------- bounds
NumTasks == 2
MaxCalls == 2
MaxTime == 5
MaxTokensArg == 2
MaxFailures == 6
MaxSequentialCalls == 60

\* ------------------------------------------------------- units, constants
TicksPerSec == 10
TokScale == 100

FailureThreshold == 5
RecoveryTimeoutSec == 30
MaxRetries == 3
DefaultBaseRate == 10
DefaultMaxRate == 50
DefaultMinRate == 5

RecoveryTimeout == RecoveryTimeoutSec * TicksPerSec

Tasks == 1..NumTasks

Min(a, b) == IF a <= b THEN a ELSE b
Max(a, b) == IF a >= b THEN a ELSE b
CeilDiv(a, b) == (a + b - 1) \div b

RECURSIVE Pow2(_)
Pow2(k) == IF k = 0 THEN 1 ELSE 2 * Pow2(k - 1)

\* A float value of v tokens (or tokens per second).
Tok(v) == v * TokScale

\* increase_factor = 1.1 and decrease_factor = 0.5 as fractions.
IncreaseFactor == <<11, 10>>
DecreaseFactor == <<1, 2>>
Times(x, f) == (x * f[1]) \div f[2]

VARIABLES
    bucket,     \* TokenBucket: rate, capacity, tokens, age (= now - last_refill),
                \* locked (its asyncio.Lock is held)
    breaker,    \* CircuitBreaker: failure_count, stamped, age, state
    limiter,    \* AdaptiveRateLimiter: base_rate, max_rate, min_rate, current_rate,
                \* successful_requests, rate_limited_requests
    task,       \* per asyncio task: where it is suspended, and what its call has done
    calls,      \* number of execute calls started so far that the breaker admitted
    obs         \* an observer's interval: clock, tokens held at its start, tokens consumed in it

vars == <<bucket, breaker, limiter, task, calls, obs>>

\* ------------------------------------------------------------ TokenBucket

\* TokenBucket.__init__
NewBucket(rate, cap) ==
    LET c == IF cap = 0 THEN rate ELSE cap
    IN [rate |-> rate, capacity |-> c, tokens |-> c, age |-> 0, locked |-> FALSE]

\* elapsed * self.rate
TokensToAdd(b) == (b.age * b.rate) \div TicksPerSec

\* A refill that credits the elapsed time and keeps last_refill.
RefillKeepsStamp(b) ==
    [b EXCEPT !.tokens = Min(b.capacity, b.tokens + TokensToAdd(b))]

\* A refill without the cap at capacity.
RefillNoCap(b) ==
    [b EXCEPT !.tokens = b.tokens + TokensToAdd(b), !.age = 0]

\* TokenBucket._refill
Refill(b) ==
    [b EXCEPT !.tokens = Min(b.capacity, b.tokens + TokensToAdd(b)), !.age = 0]

\* try_consume that checks the stored tokens without refilling first.
TryConsumeNoRefill(b, n) ==
    IF b.tokens >= Tok(n)
    THEN [ok |-> TRUE, bucket |-> [b EXCEPT !.tokens = @ - Tok(n)]]
    ELSE [ok |-> FALSE, bucket |-> b]

\* TokenBucket.try_consume: the refilled bucket, and whether n tokens were taken.
TryConsume(b, n) ==
    LET r == Refill(b)
    IN IF r.tokens >= Tok(n)
       THEN [ok |-> TRUE, bucket |-> [r EXCEPT !.tokens = @ - Tok(n)]]
       ELSE [ok |-> FALSE, bucket |-> r]

\* self._lock is acquired and released.
Acquire(b) == [b EXCEPT !.locked = TRUE]
Release(b) == [b EXCEPT !.locked = FALSE]

\* The floor of the sleep in wait_for_tokens: 0.01 s, in milliseconds.
MinSleepMillis == 10

\* The sleep without its floor.
SleepMillisNoFloor(tokens_needed, rate) == CeilDiv(tokens_needed * 1000, rate)

\* max(wait_time, 0.01) with wait_time = tokens_needed / self.rate (lines
\* 54-58), in milliseconds, rounded up.
SleepMillis(tokens_needed, rate) ==
    Max(CeilDiv(tokens_needed * 1000, rate), MinSleepMillis)

\* The sleep in ticks of the grid: asyncio.sleep resumes the task at the
\* first grid instant at least that much later.
SleepTicks(tokens_needed, rate) ==
    CeilDiv(SleepMillis(tokens_needed, rate) * TicksPerSec, 1000)

\* A pass that grants n tokens as soon as one token is stored.
WaitPassOverdraw(b, n) ==
    LET r == Refill(b)
    IN IF r.tokens >= Tok(1)
       THEN [ok |-> TRUE, bucket |-> [r EXCEPT !.tokens = @ - Tok(n)], sleep |-> 0]
       ELSE [ok |-> FALSE, bucket |-> r,
             sleep |-> SleepTicks(Tok(n) - r.tokens, r.rate)]

\* A pass that grants only when more than n tokens are stored.
WaitPassStrict(b, n) ==
    LET r == Refill(b)
    IN IF r.tokens > Tok(n)
       THEN [ok |-> TRUE, bucket |-> [r EXCEPT !.tokens = @ - Tok(n)], sleep |-> 0]
       ELSE [ok |-> FALSE, bucket |-> r,
             sleep |-> SleepTicks(Tok(n) + 1 - r.tokens, r.rate)]

\* A pass that grants without subtracting what it grants.
WaitPassKeepsTokens(b, n) ==
    IF b.locked
    THEN [ok |-> FALSE, bucket |-> b, sleep |-> 0]
    ELSE LET r == Refill(Acquire(b))
         IN IF r.tokens >= Tok(n)
            THEN [ok |-> TRUE, bucket |-> Release(r), sleep |-> 0]
            ELSE [ok |-> FALSE, bucket |-> Release(r),
                  sleep |-> SleepTicks(Tok(n) - r.tokens, r.rate)]

\* One pass of the loop of TokenBucket.wait_for_tokens (lines 46-58), from
\* "async with self._lock" to the point where the caller returns or
\* suspends.  With the lock held by another task the caller suspends in
\* acquire() and makes its pass when it is resumed (sleep 0).  With the lock
\* free, acquire() does not suspend: the caller refills, then consumes and
\* returns, or computes the time to sleep; leaving the with-block releases
\* the lock on both ways, before the sleep of line 58.
WaitPass(b, n) ==
    IF b.locked
    THEN [ok |-> FALSE, bucket |-> b, sleep |-> 0]
    ELSE LET r == Refill(Acquire(b))
         IN IF r.tokens >= Tok(n)
            THEN [ok |-> TRUE, bucket |-> Release([r EXCEPT !.tokens = @ - Tok(n)]),
                  sleep |-> 0]
            ELSE [ok |-> FALSE, bucket |-> Release(r),
                  sleep |-> SleepTicks(Tok(n) - r.tokens, r.rate)]

\* update_rate as its comment intends: capacity scaled by new_rate / old rate.
UpdateRateProportional(b, new_rate) ==
    LET r == Refill(b)
    IN [r EXCEPT !.rate = new_rate,
                 !.capacity = Max(new_rate, (r.capacity * new_rate) \div r.rate)]

\* TokenBucket.update_rate: self.rate is assigned before the capacity line
\* reads it, so the ratio new_rate / self.rate is taken with the new rate.
UpdateRate(b, new_rate) ==
    LET r == Refill(b)
        assigned == [r EXCEPT !.rate = new_rate]
    IN [assigned EXCEPT
          !.capacity = Max(new_rate, (assigned.capacity * new_rate) \div assigned.rate)]

\* The tokens the bucket holds at this instant, pending credit included
\* (what _refill would store).
TokensHeld(b) == Refill(b).tokens

\* --------------------------------------------------------- CircuitBreaker

\* CircuitBreaker.__init__ (stamped: last_failure_time is not None)
NewBreaker == [failure_count |-> 0, stamped |-> FALSE, age |-> 0, state |-> "closed"]

\* record_success that waits for the recovery timeout of an open breaker.
RecordSuccessUnlessOpen(br) ==
    IF br.state = "open"
    THEN [br EXCEPT !.failure_count = 0]
    ELSE [br EXCEPT !.failure_count = 0, !.state = "closed"]

\* record_success that keeps the failure count.
RecordSuccessKeepsCount(br) == [br EXCEPT !.state = "closed"]

\* CircuitBreaker.record_success
RecordSuccess(br) == [br EXCEPT !.failure_count = 0, !.state = "closed"]

\* record_failure opening one failure late.
RecordFailureLate(br) ==
    [br EXCEPT !.failure_count = @ + 1, !.stamped = TRUE, !.age = 0,
               !.state = IF br.failure_count + 1 > FailureThreshold THEN "open" ELSE @]

\* record_failure that stamps last_failure_time only on a closed breaker.
RecordFailureStampsClosed(br) ==
    [br EXCEPT !.failure_count = @ + 1, !.stamped = TRUE,
               !.age = IF br.state = "closed" THEN 0 ELSE @,
               !.state = IF br.failure_count + 1 >= FailureThreshold THEN "open" ELSE @]

\* CircuitBreaker.record_failure
RecordFailure(br) ==
    [br EXCEPT !.failure_count = @ + 1, !.stamped = TRUE, !.age = 0,
               !.state = IF br.failure_count + 1 >= FailureThreshold THEN "open" ELSE @]

\* is_open that lets the probe through as soon as the timeout is reached.
IsOpenAtTimeout(br) ==
    IF br.state = "open"
    THEN IF br.stamped /\ br.age >= RecoveryTimeout
         THEN [open |-> FALSE, breaker |-> [br EXCEPT !.state = "half-open"]]
         ELSE [open |-> TRUE, breaker |-> br]
    ELSE [open |-> FALSE, breaker |-> br]

\* is_open that never reports an open breaker.
IsOpenNever(br) == [open |-> FALSE, breaker |-> br]

\* CircuitBreaker.is_open: the answer, and the breaker after the call.
IsOpen(br) ==
    IF br.state = "open"
    THEN IF br.stamped /\ br.age > RecoveryTimeout
         THEN [open |-> FALSE, breaker |-> [br EXCEPT !.state = "half-open"]]
         ELSE [open |-> TRUE, breaker |-> br]
    ELSE [open |-> FALSE, breaker |-> br]

\* ---------------------------------------------------- AdaptiveRateLimiter

\* AdaptiveRateLimiter.__init__: the limiter, its bucket and its breaker.
NewLimiter(base_rate, max_rate, min_rate) ==
    [limiter |-> [base_rate |-> base_rate, max_rate |-> max_rate, min_rate |-> min_rate,
                  current_rate |-> base_rate,
                  successful_requests |-> 0, rate_limited_requests |-> 0],
     bucket |-> NewBucket(base_rate, base_rate * 2),
     breaker |-> NewBreaker]

\* The limiter with the bucket and breaker it owns, as one value.
Sys == [limiter |-> limiter, bucket |-> bucket, breaker |-> breaker]

\* _on_success without the cap at max_rate.
OnSuccessUncapped(s) ==
    LET nr == Times(s.limiter.current_rate, IncreaseFactor)
    IN [limiter |-> [s.limiter EXCEPT !.successful_requests = @ + 1, !.current_rate = nr],
        breaker |-> RecordSuccess(s.breaker),
        bucket |-> UpdateRate(s.bucket, nr)]

\* _on_success that raises current_rate and leaves the bucket at its old rate.
OnSuccessNoPropagate(s) ==
    LET lim == [s.limiter EXCEPT !.successful_requests = @ + 1]
    IN [limiter |-> [lim EXCEPT !.current_rate =
                        IF @ < lim.max_rate
                        THEN Min(Times(@, IncreaseFactor), lim.max_rate) ELSE @],
        breaker |-> RecordSuccess(s.breaker),
        bucket |-> s.bucket]

\* AdaptiveRateLimiter._on_success
OnSuccess(s) ==
    LET lim == [s.limiter EXCEPT !.successful_requests = @ + 1]
        br == RecordSuccess(s.breaker)
    IN IF lim.current_rate < lim.max_rate
       THEN LET nr == Min(Times(lim.current_rate, IncreaseFactor), lim.max_rate)
            IN [limiter |-> [lim EXCEPT !.current_rate = nr],
                breaker |-> br,
                bucket |-> UpdateRate(s.bucket, nr)]
       ELSE [limiter |-> lim, breaker |-> br, bucket |-> s.bucket]

\* _on_rate_limit that leaves the bucket at its old rate.
OnRateLimitNoPropagate(s) ==
    [limiter |-> [s.limiter EXCEPT
                    !.rate_limited_requests = @ + 1,
                    !.current_rate = Max(Times(@, DecreaseFactor), s.limiter.min_rate)],
     breaker |-> RecordFailure(s.breaker),
     bucket |-> s.bucket]

\* AdaptiveRateLimiter._on_rate_limit
OnRateLimit(s) ==
    LET nr == Max(Times(s.limiter.current_rate, DecreaseFactor), s.limiter.min_rate)
    IN [limiter |-> [s.limiter EXCEPT !.rate_limited_requests = @ + 1, !.current_rate = nr],
        breaker |-> RecordFailure(s.breaker),
        bucket |-> UpdateRate(s.bucket, nr)]

\* get_stats that brings the bucket and the breaker up to date first.
GetStatsProbing(s) ==
    LET b == Refill(s.bucket)
        br == IsOpen(s.breaker).breaker
    IN [stats |-> [current_rate |-> s.limiter.current_rate,
                   successful_requests |-> s.limiter.successful_requests,
                   rate_limited_requests |-> s.limiter.rate_limited_requests,
                   circuit_breaker_state |-> br.state,
                   tokens_available |-> b.tokens],
        sys |-> [s EXCEPT !.bucket = b, !.breaker = br]]

\* AdaptiveRateLimiter.get_stats: the dict it returns, and the limiter after
\* the call.
GetStats(s) ==
    [stats |-> [current_rate |-> s.limiter.current_rate,
                successful_requests |-> s.limiter.successful_requests,
                rate_limited_requests |-> s.limiter.rate_limited_requests,
                circuit_breaker_state |-> s.breaker.state,
                tokens_available |-> s.bucket.tokens],
     sys |-> s]

\* ------------------------------------------------------------------ tasks

\* A task outside any call.  pc: where the task is suspended
\*   "idle"        not in a call
\*   "waiting"     wait_for_tokens called directly, in asyncio.sleep (line 58)
\*   "token_sleep" execute, inside wait_for_tokens, in asyncio.sleep (line 58)
\*   "invoking"    execute, awaiting the operation (line 172)
\*   "backoff"     execute, in the backoff asyncio.sleep (line 185)
\*   "done"        execute has returned or raised
\* raised: the exception execute ended with, by the line that raised it
\*   "none", "circuit_open" (156), "operation_rate_limit" (181, the
\*   operation's own exception), "operation_error" (189), "max_retries" (191)
\* value: the invocation whose return value or exception the caller got.
\* outcome: how the latest invocation of the operation ended ("pending" while
\*   it runs, then "ok", "rate_limit" or "error").
\* sole: the call is the first on its limiter and no other call has started.
\* A direct call of wait_for_tokens(n) ends in pc "done" with outcome
\*   "immediate" (returned on the first pass), "waited" (returned after a
\*   sleep) or "cancelled".  The value it returns, time.time() - start_time,
\*   is the observer's clock when the observer starts at the call.
IdleTask ==
    [pc |-> "idle", timer |-> 0, n |-> 0, retry_count |-> 0,
     invocations |-> 0, sleeps |-> 0, outcome |-> "none",
     raised |-> "none", value |-> 0, sole |-> FALSE]

\* The operation is called (line 172).
Invoke(tk) == [tk EXCEPT !.pc = "invoking", !.invocations = @ + 1, !.outcome = "pending"]

\* The interval an observer watches, begun now.
NewObs(b) == [clock |-> 0, held |-> TokensHeld(b), consumed |-> 0, rate_changed |-> FALSE]

Consumed(o, n) == IF o.rate_changed THEN o ELSE [o EXCEPT !.consumed = @ + Tok(n)]

\* The top of the loop with the breaker checked on the first attempt only.
LoopTopChecksOnce(tk, s) ==
    IF tk.retry_count >= MaxRetries
    THEN [task |-> [tk EXCEPT !.pc = "done", !.raised = "max_retries"], sys |-> s]
    ELSE LET io == IF tk.retry_count = 0 THEN IsOpen(s.breaker)
                   ELSE [open |-> FALSE, breaker |-> s.breaker]
             s1 == [s EXCEPT !.breaker = io.breaker]
             w == WaitPass(s.bucket, 1)
         IN IF io.open
            THEN [task |-> [tk EXCEPT !.pc = "done", !.raised = "circuit_open"],
                  sys |-> s1]
            ELSE IF w.ok
            THEN [task |-> Invoke(tk), sys |-> [s1 EXCEPT !.bucket = w.bucket]]
            ELSE [task |-> [tk EXCEPT !.pc = "token_sleep", !.timer = w.sleep, !.n = 1],
                  sys |-> [s1 EXCEPT !.bucket = w.bucket]]

\* The top of the loop with a rejection by the breaker counted as a
\* rate-limited request.
LoopTopCountsRejections(tk, s) ==
    IF tk.retry_count >= MaxRetries
    THEN [task |-> [tk EXCEPT !.pc = "done", !.raised = "max_retries"], sys |-> s]
    ELSE LET io == IsOpen(s.breaker)
             s1 == [s EXCEPT !.breaker = io.breaker]
             w == WaitPass(s.bucket, 1)
         IN IF io.open
            THEN [task |-> [tk EXCEPT !.pc = "done", !.raised = "circuit_open"],
                  sys |-> [s1 EXCEPT !.limiter.rate_limited_requests = @ + 1]]
            ELSE IF w.ok
            THEN [task |-> Invoke(tk), sys |-> [s1 EXCEPT !.bucket = w.bucket]]
            ELSE [task |-> [tk EXCEPT !.pc = "token_sleep", !.timer = w.sleep, !.n = 1],
                  sys |-> [s1 EXCEPT !.bucket = w.bucket]]

\* The top of the loop of execute (lines 163-172) for task record tk, up to
\* the first point where it suspends or ends: the loop condition, the breaker
\* check, the first pass of wait_for_tokens(1) and, with a token, the call
\* of the operation.
LoopTop(tk, s) ==
    IF tk.retry_count >= MaxRetries
    THEN [task |-> [tk EXCEPT !.pc = "done", !.raised = "max_retries"], sys |-> s]
    ELSE LET io == IsOpen(s.breaker)
             s1 == [s EXCEPT !.breaker = io.breaker]
             w == WaitPass(s.bucket, 1)
         IN IF io.open
            THEN [task |-> [tk EXCEPT !.pc = "done", !.raised = "circuit_open"],
                  sys |-> s1]
            ELSE IF w.ok
            THEN [task |-> Invoke(tk), sys |-> [s1 EXCEPT !.bucket = w.bucket]]
            ELSE [task |-> [tk EXCEPT !.pc = "token_sleep", !.timer = w.sleep, !.n = 1],
                  sys |-> [s1 EXCEPT !.bucket = w.bucket]]

\* A backoff that grows by 0.5 s a retry.
BackoffTicksLinear(retry_count) == (retry_count * TicksPerSec) \div 2

\* 2 ** retry_count * 0.5 seconds, in ticks
BackoffTicks(retry_count) == (Pow2(retry_count) * TicksPerSec) \div 2

\* The handler of RateLimitError with one retry too many.
RetryOrRaiseLate(tk) ==
    LET rc == tk.retry_count + 1
    IN IF rc > MaxRetries
       THEN [tk EXCEPT !.retry_count = rc, !.pc = "done",
                       !.raised = "operation_rate_limit", !.value = tk.invocations]
       ELSE [tk EXCEPT !.retry_count = rc, !.pc = "backoff",
                       !.timer = BackoffTicks(rc), !.sleeps = @ + 1]

\* The handler of RateLimitError after _on_rate_limit (178-185): count the
\* retry, then re-raise the operation's exception or sleep the backoff.
RetryOrRaise(tk) ==
    LET rc == tk.retry_count + 1
    IN IF rc >= MaxRetries
       THEN [tk EXCEPT !.retry_count = rc, !.pc = "done",
                       !.raised = "operation_rate_limit", !.value = tk.invocations]
       ELSE [tk EXCEPT !.retry_count = rc, !.pc = "backoff",
                       !.timer = BackoffTicks(rc), !.sleeps = @ + 1]

SetSys(s) ==
    /\ limiter' = s.limiter
    /\ bucket' = s.bucket
    /\ breaker' = s.breaker

\* Tasks that are in no call are interchangeable: the next call is made by
\* the first of them.
NextToStart(t) == \A u \in Tasks : u < t => task[u].pc \notin {"idle", "done"}

\* A call of execute by a task that is in no call.  The calls the breaker
\* admits are counted and bounded by max_calls; a call it rejects changes
\* nothing but the caller's own record.
StartCall(t, max_calls) ==
    /\ task[t].pc \in {"idle", "done"}
    /\ NextToStart(t)
    /\ LET r == LoopTop([IdleTask EXCEPT !.sole = (calls = 0)], Sys)
           admitted == r.task.raised # "circuit_open"
       IN /\ admitted => calls < max_calls
          /\ task' = [u \in Tasks |->
                        IF u = t THEN r.task ELSE [task[u] EXCEPT !.sole = FALSE]]
          /\ SetSys(r.sys)
          /\ calls' = IF admitted THEN calls + 1 ELSE calls
    /\ obs' = obs

StartExecute(t) == StartCall(t, MaxCalls)

\* A wake-up that checks the breaker again before the operation is called.
TokenWakeRechecks(t) ==
    /\ task[t].pc = "token_sleep"
    /\ task[t].timer = 0
    /\ LET w == WaitPass(bucket, task[t].n)
           io == IsOpen(breaker)
       IN /\ bucket' = w.bucket
          /\ breaker' = IF w.ok THEN io.breaker ELSE breaker
          /\ task' = IF w.ok
                      THEN IF io.open
                           THEN [task EXCEPT ![t].pc = "done", ![t].raised = "circuit_open"]
                           ELSE [task EXCEPT ![t] = Invoke(@)]
                      ELSE [task EXCEPT ![t].timer = w.sleep]
    /\ UNCHANGED <<limiter, calls, obs>>

\* wait_for_tokens inside execute wakes from its sleep and loops (45-58);
\* with a token it returns and execute calls the operation (172).
TokenWake(t) ==
    /\ task[t].pc = "token_sleep"
    /\ task[t].timer = 0
    /\ LET w == WaitPass(bucket, task[t].n)
       IN /\ bucket' = w.bucket
          /\ task' = IF w.ok
                      THEN [task EXCEPT ![t] = Invoke(@)]
                      ELSE [task EXCEPT ![t].timer = w.sleep]
    /\ UNCHANGED <<limiter, breaker, calls, obs>>

\* The operation returns (173-174).
OpReturns(t) ==
    /\ task[t].pc = "invoking"
    /\ SetSys(OnSuccess(Sys))
    /\ task' = [task EXCEPT ![t].pc = "done", ![t].outcome = "ok",
                            ![t].value = task[t].invocations]
    /\ UNCHANGED <<calls, obs>>

\* The operation raises RateLimitError (176-185).
OpRateLimited(t) ==
    /\ task[t].pc = "invoking"
    /\ SetSys(OnRateLimit(Sys))
    /\ task' = [task EXCEPT ![t] = RetryOrRaise([@ EXCEPT !.outcome = "rate_limit"])]
    /\ UNCHANGED <<calls, obs>>

\* Another exception handled as if it were RateLimitError.
OpFailsCounted(t) ==
    /\ task[t].pc = "invoking"
    /\ SetSys(OnRateLimit(Sys))
    /\ task' = [task EXCEPT ![t] = RetryOrRaise([@ EXCEPT !.outcome = "error"])]
    /\ UNCHANGED <<calls, obs>>

\* The operation raises another exception (187-189).
OpFails(t) ==
    /\ task[t].pc = "invoking"
    /\ task' = [task EXCEPT ![t].pc = "done", ![t].outcome = "error",
                            ![t].raised = "operation_error",
                            ![t].value = task[t].invocations]
    /\ UNCHANGED <<limiter, bucket, breaker, calls, obs>>

\* A retry that calls the operation on the token of the attempt before.
BackoffWakeKeepsPermit(t) ==
    /\ task[t].pc = "backoff"
    /\ task[t].timer = 0
    /\ LET io == IsOpen(breaker)
       IN /\ breaker' = io.breaker
          /\ task' = IF io.open
                      THEN [task EXCEPT ![t].pc = "done", ![t].raised = "circuit_open"]
                      ELSE [task EXCEPT ![t] = Invoke(@)]
    /\ UNCHANGED <<limiter, bucket, calls, obs>>

\* The backoff sleep ends and the loop of execute starts over (163).
BackoffWake(t) ==
    /\ task[t].pc = "backoff"
    /\ task[t].timer = 0
    /\ LET r == LoopTop(task[t], Sys)
       IN /\ task' = [task EXCEPT ![t] = r.task]
          /\ SetSys(r.sys)
    /\ UNCHANGED <<calls, obs>>

\* limiter.get_stats() is called, by a task or by any other code, between
\* two steps of the tasks.
GetStatsCall ==
    /\ SetSys(GetStats(Sys).sys)
    /\ UNCHANGED <<task, calls, obs>>

\* The least elapsed time whose credit fills the bucket.
FillAge(b) == CeilDiv((b.capacity - b.tokens) * TicksPerSec, b.rate)

\* d ticks of time pass for the bucket, the breaker and the sleepers.
\* bucket.age stops once the pending credit fills the bucket; breaker.age is
\* read only while the state is open (is_open) and every change to open
\* stamps it anew, so it is counted while open, up to the recovery timeout.
TimePasses(d) ==
    /\ bucket' = [bucket EXCEPT !.age = Min(@ + d, Max(@, FillAge(bucket)))]
    /\ breaker' = [breaker EXCEPT !.age =
                    IF breaker.state = "open" THEN Min(@ + d, RecoveryTimeout + 1) ELSE @]
    /\ task' = [u \in Tasks |-> [task[u] EXCEPT !.timer = Max(@ - d, 0)]]
    /\ UNCHANGED <<limiter, calls>>

\* A sleeper or the bucket's pending credit is waiting for time to pass.
TimeAwaited ==
    \/ \E u \in Tasks : task[u].timer > 0
    \/ bucket.age < FillAge(bucket)

\* The steps of time the limiter is observed at: the base delay of the
\* backoff (0.5 s) while a sleeper or the bucket waits for time, and, with
\* the breaker open, the rest of its recovery timeout.  A task may run at
\* any later step than the one its sleep ends at.
Delays ==
    (IF TimeAwaited THEN {TicksPerSec \div 2} ELSE {}) \cup
    (IF breaker.state = "open" /\ breaker.age <= RecoveryTimeout
     THEN {RecoveryTimeout + 1 - breaker.age} ELSE {})

Tick ==
    /\ \E d \in Delays : TimePasses(d)
    /\ obs' = obs

\* ------------------------------------------- the limiter's specification

\* base_rate arguments, in 1/TokScale: the default 10, 40, 46 (one success
\* below max_rate), and 60 and 0.5, above max_rate and below min_rate, which
\* the constructor accepts unchecked (the bucket of 0.5 holds one token).
BaseRates == {Tok(DefaultBaseRate), Tok(40), Tok(46), Tok(60), TokScale \div 2}

Init ==
    \E base \in BaseRates :
        LET s == NewLimiter(base, Tok(DefaultMaxRate), Tok(DefaultMinRate))
        IN /\ limiter = s.limiter
           /\ bucket = s.bucket
           /\ breaker = s.breaker
           /\ task = [t \in Tasks |-> IdleTask]
           /\ calls = 0
           /\ obs = NewObs(s.bucket)

Next ==
    \/ \E t \in Tasks : StartExecute(t)
    \/ \E t \in Tasks : TokenWake(t)
    \/ \E t \in Tasks : OpReturns(t)
    \/ \E t \in Tasks : OpRateLimited(t)
    \/ \E t \in Tasks : OpFails(t)
    \/ \E t \in Tasks : BackoffWake(t)
    \/ GetStatsCall
    \/ Tick

Spec == Init /\ [][Next]_vars

\* The event loop runs every task whose sleep has ended, time passes, and an
\* operation that was called ends (returns or raises).
Fairness ==
    /\ WF_vars(Tick)
    /\ \A t \in Tasks :
         /\ WF_vars(TokenWake(t))
         /\ WF_vars(BackoffWake(t))
         /\ WF_vars(OpReturns(t) \/ OpRateLimited(t) \/ OpFails(t))

FairSpec == Spec /\ Fairness

\* Task t's operation ended this step with outcome o.
Ended(t, o) == task[t].outcome = "pending" /\ task'[t].outcome = o

\* Task t runs the top of the loop of execute in this step.
AtLoopTop(t) == StartExecute(t) \/ BackoffWake(t)

\* C3: execute called (or retried) while the breaker is open and the recovery
\* timeout has not elapsed ends at once with the circuit-open error: the
\* operation is not invoked, no token is taken (the bucket is not touched),
\* and current_rate, both counters, failure_count and the breaker state stay.
C3_OpenFailsFast ==
    [][\A t \in Tasks :
         (AtLoopTop(t) /\ breaker.state = "open" /\ breaker.age <= RecoveryTimeout
            /\ task[t].retry_count < MaxRetries)
         => /\ task'[t].pc = "done"
            /\ task'[t].raised = "circuit_open"
            /\ task'[t].outcome # "pending"
            /\ task'[t].invocations = (IF task[t].pc = "backoff" THEN task[t].invocations ELSE 0)
            /\ UNCHANGED <<bucket, breaker, limiter>>]_vars

\* C3 witness: a new call was rejected by the open breaker before its
\* timeout, without an invocation.
C3_Witness ==
    /\ breaker.state = "open"
    /\ breaker.age <= RecoveryTimeout
    /\ breaker.failure_count = FailureThreshold
    /\ limiter.rate_limited_requests = FailureThreshold
    /\ \E t \in Tasks : /\ task[t].pc = "done" /\ task[t].raised = "circuit_open"
                          /\ task[t].invocations = 0

\* No call invokes the operation more than max_retries times, and the first
\* call on a new limiter, alone, whose operation raised RateLimitError at
\* every invocation, has ended raising after exactly max_retries invocations.
C4_Budget ==
    \A t \in Tasks :
        /\ task[t].invocations <= MaxRetries
        /\ (task[t].sole /\ task[t].pc = "done" /\ task[t].outcome \notin {"ok", "error"})
           => /\ task[t].raised = "operation_rate_limit"
              /\ task[t].invocations = MaxRetries
              /\ limiter.rate_limited_requests = MaxRetries

\* C4: execute of an operation that raises RateLimitError at every invocation
\* on a new limiter ends, by raising after exactly max_retries invocations
\* (every call of execute whose operation ends each time it is called
\* ends); and no call of execute invokes the operation more than max_retries
\* times.
C4_RetryBudget ==
    /\ []C4_Budget
    /\ \A t \in Tasks : (task[t].pc \notin {"idle", "done"}) ~> (task[t].pc = "done")

\* C4 witness: the sole first call ended after three rate-limited invocations.
C4_Witness ==
    \E t \in Tasks :
        /\ task[t].sole /\ task[t].pc = "done"
        /\ task[t].raised = "operation_rate_limit"
        /\ task[t].invocations = MaxRetries
        /\ limiter.base_rate = Tok(DefaultBaseRate)

\* C5: on a new default limiter, the sole call whose operation raised
\* RateLimitError once and then returned gets the second invocation's value
\* after two invocations and one backoff sleep; then rate_limited_requests =
\* 1, successful_requests = 1, the breaker is closed with failure_count 0,
\* and current_rate < base_rate.
C5_RetryThenSuccess ==
    \A t \in Tasks :
        (/\ limiter.base_rate = Tok(DefaultBaseRate)
         /\ task[t].sole /\ task[t].pc = "done"
         /\ task[t].outcome = "ok" /\ task[t].retry_count = 1)
        => /\ task[t].raised = "none"
           /\ task[t].value = 2
           /\ task[t].invocations = 2
           /\ task[t].sleeps = 1
           /\ limiter.rate_limited_requests = 1
           /\ limiter.successful_requests = 1
           /\ breaker.state = "closed"
           /\ breaker.failure_count = 0
           /\ limiter.current_rate < limiter.base_rate

\* C5 witness: such a call has returned.
C5_Witness ==
    \E t \in Tasks :
        /\ limiter.base_rate = Tok(DefaultBaseRate)
        /\ task[t].sole /\ task[t].pc = "done"
        /\ task[t].outcome = "ok" /\ task[t].retry_count = 1
        /\ task[t].value = 2

\* C6: when the operation raises an exception that is not RateLimitError,
\* execute ends in that step with that invocation's exception: no retry, no
\* backoff sleep, and current_rate, the bucket (rate, capacity), the breaker
\* (state, failure_count) and both counters keep their values.
C6_OtherErrorPassesThrough ==
    [][\A t \in Tasks :
         Ended(t, "error")
         => /\ task'[t].pc = "done"
            /\ task'[t].raised = "operation_error"
            /\ task'[t].value = task[t].invocations
            /\ task'[t].invocations = task[t].invocations
            /\ task'[t].retry_count = task[t].retry_count
            /\ task'[t].sleeps = task[t].sleeps
            /\ UNCHANGED <<bucket, breaker, limiter>>]_vars

\* C6 witness: a call ended with the operation's error at its first
\* invocation, with failures recorded in the breaker by other calls.
C6_Witness ==
    \E t \in Tasks :
        /\ task[t].pc = "done" /\ task[t].raised = "operation_error"
        /\ task[t].invocations = 1 /\ task[t].sleeps = 0
        /\ breaker.failure_count > 0

\* C7: min_rate <= current_rate <= max_rate in every reachable state of
\* every limiter.
C7_RateInRange ==
    /\ limiter.min_rate <= limiter.current_rate
    /\ limiter.current_rate <= limiter.max_rate

\* C8: a success with current_rate < max_rate sets current_rate to
\* min(current_rate * increase_factor, max_rate), a strictly larger value,
\* and sets the bucket's rate to it; a success at current_rate = max_rate
\* changes neither current_rate nor the bucket.
C8_SuccessRaisesRate ==
    [][\A t \in Tasks :
         Ended(t, "ok")
         => /\ limiter.current_rate < limiter.max_rate
               => /\ limiter'.current_rate =
                        Min(Times(limiter.current_rate, IncreaseFactor), limiter.max_rate)
                  /\ limiter'.current_rate > limiter.current_rate
                  /\ bucket'.rate = limiter'.current_rate
            /\ limiter.current_rate = limiter.max_rate
               => /\ limiter'.current_rate = limiter.current_rate
                  /\ bucket' = bucket]_vars

\* C8 witness: a success has raised the rate from 46 to max_rate, and one
\* more success came at max_rate.
C8_Witness ==
    /\ limiter.base_rate = Tok(46)
    /\ limiter.current_rate = limiter.max_rate
    /\ bucket.rate = limiter.max_rate
    /\ limiter.successful_requests = 2
    /\ limiter.rate_limited_requests = 0

\* C9: a rate-limit signal sets current_rate to
\* max(current_rate * decrease_factor, min_rate), from 40 to exactly 20, and
\* sets the bucket's rate to the same value in the same step.
C9_RateLimitCutsRate ==
    [][\A t \in Tasks :
         Ended(t, "rate_limit")
         => /\ limiter'.current_rate =
                  Max(Times(limiter.current_rate, DecreaseFactor), limiter.min_rate)
            /\ limiter.current_rate = Tok(40) => limiter'.current_rate = Tok(20)
            /\ bucket'.rate = limiter'.current_rate]_vars

\* C9 witness: one signal has cut the rate of a limiter from 40 to 20.
C9_Witness ==
    /\ limiter.base_rate = Tok(40)
    /\ limiter.rate_limited_requests = 1
    /\ limiter.successful_requests = 0
    /\ limiter.current_rate = Tok(20)
    /\ bucket.rate = Tok(20)

\* C10: a rate-limit outcome (record_failure) adds one to failure_count,
\* stamps last_failure_time, and leaves the state open exactly when the new
\* failure_count >= failure_threshold; is_open() is then true and the breaker
\* check of execute raises; with fewer than failure_threshold failures since
\* the last success the breaker is not open.
C10_BreakerOpensAtThreshold ==
    /\ [](breaker.failure_count < FailureThreshold => breaker.state # "open")
    /\ [][\A t \in Tasks :
            Ended(t, "rate_limit")
            => /\ breaker'.failure_count = breaker.failure_count + 1
               /\ breaker'.stamped /\ breaker'.age = 0
               /\ breaker'.state = "open" <=> breaker'.failure_count >= FailureThreshold
               /\ breaker'.failure_count >= FailureThreshold
                  => /\ IsOpen(breaker').open
                     /\ LoopTop(IdleTask, [limiter |-> limiter', bucket |-> bucket',
                                           breaker |-> breaker']).task.raised
                          = "circuit_open"]_vars

\* C10 witness: the fifth failure in a row has just opened the breaker.
C10_Witness ==
    /\ breaker.failure_count = FailureThreshold
    /\ breaker.state = "open"
    /\ breaker.age = 0
    /\ limiter.successful_requests = 0
    /\ limiter.rate_limited_requests = FailureThreshold
    /\ \E t \in Tasks : task[t].pc = "backoff"

\* C21: the operation's own rate-limit exception never reaches the caller of
\* execute: a call that has used up its retry budget ends with the
\* "Max retries (3) exceeded" error raised after the loop (line 191).
C21_TerminalError ==
    \A t \in Tasks :
        /\ task[t].raised # "operation_rate_limit"
        /\ (task[t].pc = "done" /\ task[t].retry_count >= MaxRetries)
           => task[t].raised = "max_retries"


\* C22: get_stats() returns the stored current_rate, both counters, the
\* breaker state and the bucket's tokens, and changes nothing, wherever it is
\* called between the steps of execute calls: no refill, no change from open
\* to half-open, no counter update.
C22_GetStatsReadOnly ==
    /\ [](LET g == GetStats(Sys)
          IN /\ g.sys = Sys
             /\ g.stats = [current_rate |-> limiter.current_rate,
                           successful_requests |-> limiter.successful_requests,
                           rate_limited_requests |-> limiter.rate_limited_requests,
                           circuit_breaker_state |-> breaker.state,
                           tokens_available |-> bucket.tokens])
    /\ [][GetStatsCall => UNCHANGED vars]_vars

\* C22 witness: with a call in its backoff sleep, the breaker is open past
\* its recovery timeout and the bucket has credit pending, so a refill or an
\* is_open() at this point would change what get_stats reports.
C22_Witness ==
    /\ breaker.state = "open"
    /\ breaker.age > RecoveryTimeout
    /\ TokensHeld(bucket) > bucket.tokens
    /\ \E t \in Tasks : task[t].pc = "backoff"
    /\ GetStats(Sys).stats.circuit_breaker_state = "open"
    /\ GetStats(Sys).stats.tokens_available < TokensHeld(bucket)

\* ------------------------------------- the limiter against a throttling API
\* One caller drives a default limiter with execute calls one after the
\* other; the operation is the mock API of test_adaptive_scaling, which
\* raises RateLimitError exactly when limiter.current_rate is above its limit
\* at the invocation and returns otherwise.

\* The rate above which the mock API answers 429, and the band the test
\* expects the rate to settle in.
ApiRateLimit == 30
BandLow == 25
BandHigh == 35

InBand(rate) == Tok(BandLow) <= rate /\ rate <= Tok(BandHigh)

\* The caller's next execute call, the previous one having ended.
SequentialStart(t) ==
    /\ \A u \in Tasks : task[u].pc \in {"idle", "done"}
    /\ NextToStart(t)
    /\ calls < MaxSequentialCalls
    /\ LET r == LoopTop([IdleTask EXCEPT !.sole = (calls = 0)], Sys)
       IN /\ task' = [task EXCEPT ![t] = r.task]
          /\ SetSys(r.sys)
    /\ calls' = calls + 1
    /\ obs' = obs

\* The mock API answers the invocation.
OpResponds(t) ==
    IF limiter.current_rate > Tok(ApiRateLimit)
    THEN OpRateLimited(t)
    ELSE OpReturns(t)

\* The caller's sleep ends: the one inside wait_for_tokens, or the backoff.
SleepEnds(t) ==
    IF task[t].pc = "token_sleep" THEN TokenWake(t) ELSE BackoffWake(t)

InitAdaptive ==
    LET s == NewLimiter(Tok(DefaultBaseRate), Tok(DefaultMaxRate), Tok(DefaultMinRate))
    IN /\ limiter = s.limiter
       /\ bucket = s.bucket
       /\ breaker = s.breaker
       /\ task = [t \in Tasks |-> IdleTask]
       /\ calls = 0
       /\ obs = NewObs(s.bucket)

NextAdaptive ==
    \/ \E t \in Tasks : SequentialStart(t)
    \/ \E t \in Tasks : OpResponds(t)
    \/ \E t \in Tasks : SleepEnds(t)
    \/ Tick

SpecAdaptive == InitAdaptive /\ [][NextAdaptive]_vars

\* C23: against the API that throttles above 30, the rate of a default
\* limiter enters the band [25, 35] and stays in it, it is in the band after
\* the last call, and by then more than 50 invocations have succeeded and at
\* least one was throttled.
C23_Stabilises ==
    /\ [][InBand(limiter.current_rate) => InBand(limiter'.current_rate)]_vars
    /\ []((calls = MaxSequentialCalls /\ \A t \in Tasks : task[t].pc \in {"idle", "done"})
          => /\ InBand(limiter.current_rate)
             /\ limiter.successful_requests > 50
             /\ limiter.rate_limited_requests >= 1)

\* --------------------------------- the limiter against a failing service
\* The limiter with an operation that raises RateLimitError at every
\* invocation, called by the tasks once more than in the general
\* specification: enough for the breaker to open while a call is under way.

StartThrottled(t) == StartCall(t, MaxCalls + 1)

NextThrottled ==
    \/ \E t \in Tasks : StartThrottled(t)
    \/ \E t \in Tasks : TokenWake(t)
    \/ \E t \in Tasks : OpRateLimited(t)
    \/ \E t \in Tasks : BackoffWake(t)
    \/ Tick

SpecThrottled == Init /\ [][NextThrottled]_vars

\* ------------------------------------------ the limiter in the query system
\* IntelligentQuerySystem calls rate_limiter.execute(client.get, ...) on its
\* AdaptiveRateLimiter(base_rate=10, max_rate=40).  httpx's client.get
\* returns the response whatever its status (nothing calls
\* raise_for_status) and raises httpx's own exceptions when the request
\* fails; it never raises RateLimitError.

QueryBaseRate == 10
QueryMaxRate == 40

\* The statuses the service answers with: OK and Too Many Requests.
HttpOk == 200
HttpTooManyRequests == 429

\* client.get returns a response with the given status (lines 173-174).
ClientGetReturns(t, status) ==
    /\ status \in {HttpOk, HttpTooManyRequests}
    /\ OpReturns(t)

\* client.get raises a transport error or a timeout.
ClientGetFails(t) == OpFails(t)

InitQuery ==
    LET s == NewLimiter(Tok(QueryBaseRate), Tok(QueryMaxRate), Tok(DefaultMinRate))
    IN /\ limiter = s.limiter
       /\ bucket = s.bucket
       /\ breaker = s.breaker
       /\ task = [t \in Tasks |-> IdleTask]
       /\ calls = 0
       /\ obs = NewObs(s.bucket)

NextQuery ==
    \/ \E t \in Tasks : StartCall(t, MaxCalls + 1)
    \/ \E t \in Tasks : \E status \in {HttpOk, HttpTooManyRequests} :
          ClientGetReturns(t, status)
    \/ \E t \in Tasks : ClientGetFails(t)
    \/ Tick

SpecQuery == InitQuery /\ [][NextQuery]_vars

\* C28: when the service answers a request of the query system with 429, the
\* limiter counts a rate-limited request, lowers current_rate and retries:
\* the call sleeps its backoff (or ends raising) instead of returning.
C28_ThrottleIsSignalled ==
    [][\A t \in Tasks :
         ClientGetReturns(t, HttpTooManyRequests)
         => /\ limiter'.rate_limited_requests = limiter.rate_limited_requests + 1
            /\ limiter'.successful_requests = limiter.successful_requests
            /\ limiter'.current_rate < limiter.current_rate
            /\ task'[t].outcome = "rate_limit"
            /\ task'[t].pc = "backoff" \/ task'[t].raised # "none"]_vars

\* ---------------------------------------------- the bucket's specification
\* One TokenBucket used directly: _refill, try_consume(n), update_rate(r)
\* and tasks that call wait_for_tokens(n), with an observer that counts the
\* time and the tokens consumed since the initial state.  Every operation
\* refills first, so an interval that starts at a bucket with pending credit
\* is one that starts at the refilled bucket: the initial states, with
\* last_refill = now and any of the listed token counts, are the starts of
\* the intervals.

\* bucket._refill()
DirectRefill ==
    /\ bucket' = Refill(bucket)
    /\ UNCHANGED <<limiter, breaker, task, calls, obs>>

\* bucket.try_consume(n)
DirectTryConsume(n) ==
    /\ LET r == TryConsume(bucket, n)
       IN /\ bucket' = r.bucket
          /\ obs' = IF r.ok THEN Consumed(obs, n) ELSE obs
    /\ UNCHANGED <<limiter, breaker, task, calls>>

\* bucket.update_rate(r)
DirectUpdateRate(r) ==
    /\ r # bucket.rate
    /\ bucket' = UpdateRate(bucket, r)
    /\ obs' = [clock |-> obs.clock, held |-> 0, consumed |-> 0, rate_changed |-> TRUE]
    /\ UNCHANGED <<limiter, breaker, task, calls>>

\* A pass of the loop of wait_for_tokens(n) by task t (lines 45-58), seen by
\* observer o: it returns, or sleeps for the computed time.
WaitLoop(t, n, o) ==
    LET w == WaitPass(bucket, n)
    IN /\ bucket' = w.bucket
       /\ IF w.ok
          THEN /\ task' = [task EXCEPT ![t].pc = "done", ![t].n = 0, ![t].timer = 0,
                                       ![t].outcome = IF task[t].pc = "waiting"
                                                      THEN "waited" ELSE "immediate"]
               /\ obs' = Consumed(o, n)
          ELSE /\ task' = [task EXCEPT ![t].pc = "waiting", ![t].timer = w.sleep,
                                       ![t].n = n]
               /\ obs' = o

\* Tasks that have not called yet are interchangeable: the next call is
\* made by the first of them.
NextToWait(t) == \A u \in Tasks : u < t => task[u].pc # "idle"

\* No task has called wait_for_tokens and nothing has been consumed.
FirstCall ==
    /\ \A u \in Tasks : task[u].pc = "idle"
    /\ obs.consumed = 0
    /\ ~obs.rate_changed

\* Task t calls bucket.wait_for_tokens(n); each task calls it once.  The
\* observer's interval starts over at the first call if nothing was
\* consumed before it.
WaitCall(t, n) ==
    /\ task[t].pc = "idle"
    /\ NextToWait(t)
    /\ WaitLoop(t, n, IF FirstCall THEN NewObs(bucket) ELSE obs)
    /\ UNCHANGED <<limiter, breaker, calls>>

\* A cancellation that lands after the tokens were deducted.
CancelAfterGrant(t) ==
    /\ task[t].pc = "waiting"
    /\ task' = [task EXCEPT ![t].pc = "done", ![t].outcome = "cancelled",
                            ![t].timer = 0]
    /\ bucket' = [Refill(bucket) EXCEPT !.tokens = Max(@ - Tok(task[t].n), 0)]
    /\ UNCHANGED <<limiter, breaker, calls, obs>>

\* Task t is cancelled while it sleeps in wait_for_tokens (line 58, outside
\* the lock): CancelledError leaves the coroutine without running any of
\* its code.  The lock is acquired without suspending, being free at every
\* suspension point, so the sleep is the only place a cancellation lands.
Cancel(t) ==
    /\ task[t].pc = "waiting"
    /\ task' = [task EXCEPT ![t].pc = "done", ![t].outcome = "cancelled",
                            ![t].timer = 0]
    /\ UNCHANGED <<limiter, bucket, breaker, calls, obs>>

\* The sleep of a waiter ends and it loops (line 58 to line 45).
WaitWake(t) ==
    /\ task[t].pc = "waiting"
    /\ task[t].timer = 0
    /\ WaitLoop(t, task[t].n, obs)
    /\ UNCHANGED <<limiter, breaker, calls>>

\* One tick passes on the observer's clock.
TickClock ==
    /\ obs.clock < MaxTime
    /\ TimePasses(1)
    /\ obs' = [obs EXCEPT !.clock = @ + 1]

\* TokenBucket(rate, capacity) as the tests construct it.
BucketArgs == {<<10, 10>>}
\* The same, and the bucket AdaptiveRateLimiter() constructs for itself
\* (capacity = base_rate * 2).
WaiterBucketArgs == BucketArgs \cup {<<DefaultBaseRate, DefaultBaseRate * 2>>}
\* Rates passed to update_rate.
UpdateRates == {5, 20}

\* Tokens left in the bucket at the start, below the full capacity: emptied
\* as the tests do (bucket.tokens = 0), or one token left.
StartTokens == {0, 1}

\* A bucket emptied and refilled 0.095 s later: 0.95 tokens.
AlmostOneToken == Tok(1) - TokScale \div 20

\* A new bucket, full or left with one of the amounts in starts.
BucketStart(args, starts) ==
    /\ \E a \in args :
         LET b == NewBucket(Tok(a[1]), Tok(a[2]))
         IN /\ \E k \in starts \cup {b.capacity} :
                 bucket = [b EXCEPT !.tokens = k]
            /\ obs = NewObs(bucket)
    /\ limiter = NewLimiter(Tok(DefaultBaseRate), Tok(DefaultMaxRate), Tok(DefaultMinRate)).limiter
    /\ breaker = NewBreaker
    /\ task = [t \in Tasks |-> IdleTask]
    /\ calls = 0

InitBucket == BucketStart(BucketArgs, {Tok(j) : j \in StartTokens} \cup {AlmostOneToken})

InitWaiters == BucketStart(WaiterBucketArgs, {Tok(j) : j \in StartTokens})

NextBucket ==
    \/ DirectRefill
    \/ \E n \in 1..MaxTokensArg : DirectTryConsume(n)
    \/ \E r \in UpdateRates : DirectUpdateRate(Tok(r))
    \/ \E t \in Tasks : \E n \in 1..MaxTokensArg : WaitCall(t, n)
    \/ \E t \in Tasks : WaitWake(t)
    \/ TickClock

SpecBucket == InitBucket /\ [][NextBucket]_vars

\* The bucket at a fixed rate: tasks that call wait_for_tokens(n) once each
\* and may be cancelled in their sleep, next to direct calls of _refill and
\* try_consume(n).
NextWaiters ==
    \/ DirectRefill
    \/ \E n \in 1..MaxTokensArg : DirectTryConsume(n)
    \/ \E t \in Tasks : \E n \in 1..MaxTokensArg : WaitCall(t, n)
    \/ \E t \in Tasks : WaitWake(t)
    \/ \E t \in Tasks : Cancel(t)
    \/ TickClock

SpecWaiters == InitWaiters /\ [][NextWaiters]_vars

\* C1: under every interleaving of _refill, try_consume(n), wait_for_tokens(n)
\* and update_rate(r) with n >= 1 and r > 0 on one bucket, the stored tokens
\* are never negative and never above the capacity.
C1_TokensInRange == 0 <= bucket.tokens /\ bucket.tokens <= bucket.capacity

\* C1 witness: update_rate(20) raised the capacity of a 10-token bucket to
\* 20, the bucket refilled to it, and update_rate(5) then cut the rate below
\* the capacity with the bucket full.
C1_Witness ==
    /\ obs.rate_changed
    /\ bucket.rate = Tok(5)
    /\ bucket.capacity = Tok(20)
    /\ bucket.tokens = bucket.capacity

\* C2: while the rate stays fixed, the tokens consumed in an interval are at
\* most the tokens held at its start plus rate * length; from an empty
\* bucket at 10 tokens per second the k-th permit is granted no earlier than
\* k/10 s (tick k of the grid).
C2_Throughput ==
    ~obs.rate_changed =>
        /\ obs.consumed * TicksPerSec <= obs.held * TicksPerSec + bucket.rate * obs.clock
        /\ (obs.held = 0 /\ bucket.rate = Tok(10)) =>
               obs.consumed <= Tok(obs.clock * 10) \div TicksPerSec

\* C2 witness: from an empty bucket at 10 per second, with every task having
\* had to wait, three permits were granted by 0.3 s and another task waits.
C2_Witness ==
    /\ ~obs.rate_changed
    /\ obs.held = 0
    /\ bucket.rate = Tok(10)
    /\ obs.consumed = Tok(3)
    /\ obs.clock = 3
    /\ \E t \in Tasks : task[t].pc = "waiting"

\* The tokens _refill would store, written out.
Refilled(b) == Min(b.capacity, b.tokens + (b.age * b.rate) \div TicksPerSec)

\* The bucket d ticks later, untouched.
Aged(b, d) == [b EXCEPT !.age = @ + d]

C15_Refill ==
    /\ [](\A d \in 0..MaxTime :
            LET b == Aged(bucket, d)
                r == Refill(b)
            IN /\ r.tokens = Refilled(b)
               /\ r.age = 0
               /\ r.rate = b.rate /\ r.capacity = b.capacity
               /\ (b.tokens = 0 /\ b.rate = Tok(10) /\ b.age = 1) => r.tokens = Tok(1)
               /\ b.tokens = b.capacity => r.tokens = b.capacity
               /\ Refill(r) = r
               /\ \A d2 \in 0..MaxTime :
                    LET once == Refill(Aged(b, d2))
                        twice == Refill(Aged(r, d2))
                    IN once.tokens < b.capacity => twice.tokens = once.tokens)
    /\ [][DirectRefill => (bucket'.tokens = Refilled(bucket) /\ bucket'.age = 0)]_vars

\* C15 witness: an emptied bucket at rate 10 was refilled 0.1 s later and
\* holds one token, nothing having been consumed.
C15_Witness ==
    /\ obs.held = 0
    /\ obs.clock = 1
    /\ obs.consumed = 0
    /\ bucket.rate = Tok(10)
    /\ bucket.tokens = Tok(1)
    /\ bucket.age = 0

\* C16: update_rate(new_rate) credits the pending refill at the old rate,
\* sets rate = new_rate and sets capacity = max(new_rate, capacity *
\* new_rate / old_rate), old_rate being the rate before the call.
C16_CapacityRescaled ==
    [][\A r \in UpdateRates :
          DirectUpdateRate(Tok(r))
          => /\ bucket'.tokens = Refilled(bucket)
             /\ bucket'.rate = Tok(r)
             /\ bucket'.capacity =
                  Max(Tok(r), (bucket.capacity * Tok(r)) \div bucket.rate)]_vars

\* Task t, inside wait_for_tokens, is the only caller so far and nothing has
\* been consumed: the observer started at its call, so obs.held is what the
\* bucket held at the call and obs.clock the time since.
SoleWaiter(t) ==
    /\ task[t].pc = "waiting"
    /\ \A u \in Tasks \ {t} : task[u].pc = "idle"
    /\ obs.consumed = 0

\* What C17 says of every call: it returns having taken exactly n of at
\* least n refilled tokens, on its first pass when the bucket holds them at
\* the call and after a sleep otherwise; a sole caller that found t < n
\* returns no earlier than (n - t) / rate after its call.
C17_Returns ==
    \A t \in Tasks :
        /\ \A n \in 1..MaxTokensArg :
             WaitCall(t, n)
             => IF Refilled(bucket) >= Tok(n)
                THEN /\ task'[t].pc = "done" /\ task'[t].outcome = "immediate"
                     /\ bucket'.tokens = Refilled(bucket) - Tok(n)
                ELSE /\ task'[t].pc = "waiting"
                     /\ bucket'.tokens = Refilled(bucket)
        /\ WaitWake(t)
           => IF Refilled(bucket) >= Tok(task[t].n)
              THEN /\ task'[t].pc = "done" /\ task'[t].outcome = "waited"
                   /\ bucket'.tokens = Refilled(bucket) - Tok(task[t].n)
                   /\ obs'.consumed = obs.consumed + Tok(task[t].n)
              ELSE /\ task'[t].pc = "waiting"
                   /\ bucket'.tokens = Refilled(bucket)
        /\ (WaitWake(t) /\ task'[t].pc = "done" /\ SoleWaiter(t))
           => obs.clock * bucket.rate >= (Tok(task[t].n) - obs.held) * TicksPerSec

Slept == {t \in Tasks : \/ task[t].pc = "waiting"
                        \/ task[t].pc = "done" /\ task[t].outcome \in {"waited", "cancelled"}}

\* The tasks whose call returned on its first pass.
Immediate == {t \in Tasks : task[t].pc = "done" /\ task[t].outcome = "immediate"}

\* All consumption since the first call is by calls of wait_for_tokens(1):
\* the callers that sleep or were cancelled asked for one token, and one
\* token was consumed for each call that has returned.
OnlyUnitWaiters ==
    /\ \A t \in Tasks : task[t].n \in {0, 1}
    /\ obs.consumed =
         Tok(Cardinality({t \in Tasks : /\ task[t].pc = "done"
                                        /\ task[t].outcome \in {"immediate", "waited"}}))

\* C18: on the bucket of a new default limiter (rate 10, 20 tokens), no two
\* callers of wait_for_tokens(1) are granted at the same instant.
C18_GrantsSpaced ==
    (/\ bucket.capacity = Tok(DefaultBaseRate * 2)
     /\ obs.held = bucket.capacity
     /\ obs.clock = 0
     /\ OnlyUnitWaiters)
    => Cardinality(Immediate) <= 1

\* C19: among callers of wait_for_tokens(1) on a bucket that held t whole
\* tokens, a caller sleeps only after t callers were granted on their first
\* pass; up to t callers are all granted without sleeping.
C19_BurstFromStore ==
    OnlyUnitWaiters
    => /\ Slept # {} => Tok(Cardinality(Immediate)) >= obs.held
       /\ Tok(Cardinality({t \in Tasks : task[t].pc # "idle"})) <= obs.held => Slept = {}

\* C19 witness: the bucket held one token; one caller got it at once and the
\* next one sleeps.
C19_Witness ==
    /\ obs.held = Tok(1)
    /\ obs.clock = 0
    /\ OnlyUnitWaiters
    /\ Cardinality(Immediate) = 1
    /\ \E t \in Tasks : task[t].pc = "waiting"

\* C20: cancelling a caller that sleeps in wait_for_tokens takes no token
\* and leaves the bucket and the other callers as they were; a waiter that
\* wakes to a bucket holding its n tokens is granted them.
C20_CancelIsClean ==
    [][\A t \in Tasks :
          /\ Cancel(t)
             => /\ bucket' = bucket
                /\ obs' = obs
                /\ \A u \in Tasks \ {t} : task'[u] = task[u]
          /\ (WaitWake(t) /\ Refilled(bucket) >= Tok(task[t].n))
             => (task'[t].pc = "done" /\ task'[t].outcome = "waited")]_vars

\* C20 witness: of two callers that slept, one was cancelled and the other
\* got its token, the only one consumed.
C20_Witness ==
    /\ obs.held = 0
    /\ \E t, u \in Tasks :
         /\ task[t].pc = "done" /\ task[t].outcome = "cancelled"
         /\ task[u].pc = "done" /\ task[u].outcome = "waited"
         /\ task[t].n = 1
         /\ obs.consumed = Tok(1)

\* A caller whose check for n tokens failed on bucket b sleeps for timer
\* ticks: the time (n - tokens) / rate the missing tokens take to accrue, at
\* least 10 ms, up to the next instant of the grid.
SleepsEnough(b, n, timer) ==
    LET needed == Tok(n) - Refilled(b)
        ms == SleepMillis(needed, b.rate)
    IN /\ needed > 0
       /\ ms >= MinSleepMillis
       /\ ms * b.rate >= needed * 1000
       /\ ms = MinSleepMillis \/ (ms - 1) * b.rate < needed * 1000
       /\ timer >= 1
       /\ timer * 1000 >= ms * TicksPerSec
       /\ (timer - 1) * 1000 < ms * TicksPerSec

\* C27: a waiter whose check fails leaves the lock free and sleeps
\* max((n - tokens) / rate, 0.01 s) before it checks again: the lock is held
\* in no state, the waiter's record changes only by the passing of time
\* while its sleep lasts, and it checks again only when the sleep is over.
C27_SleepBetweenChecks ==
    /\ [](~bucket.locked)
    /\ [][\A t \in Tasks :
            /\ \A n \in 1..MaxTokensArg :
                 (WaitCall(t, n) /\ task'[t].pc = "waiting")
                 => SleepsEnough(bucket, n, task'[t].timer)
            /\ (WaitWake(t) /\ task'[t].pc = "waiting")
               => SleepsEnough(bucket, task[t].n, task'[t].timer)
            /\ WaitWake(t) => task[t].timer = 0
            /\ (task[t].pc = "waiting" /\ task[t].timer > 0 /\ task'[t] # task[t])
               => /\ TickClock
                  /\ task'[t] = [task[t] EXCEPT !.timer = @ - 1]]_vars

\* C27 witness: a waiter 0.05 tokens short at 10 tokens per second, 5 ms of
\* accrual, has just begun the floored sleep with the lock free.
C27_Witness ==
    /\ ~bucket.locked
    /\ bucket.age = 0
    /\ \E t \in Tasks :
         /\ task[t].pc = "waiting"
         /\ task[t].timer = 1
         /\ Tok(task[t].n) > bucket.tokens
         /\ (Tok(task[t].n) - bucket.tokens) * 1000 < MinSleepMillis * bucket.rate

\* ------------------------------------------------ waiters left to themselves
\* Buckets built without a capacity argument, TokenBucket(rate=1) and
\* TokenBucket(rate=2), so that capacity = rate (line 18), with tasks that
\* call wait_for_tokens(n) once each and time that passes without end.  On
\* the bucket of one token a call for two asks for more than the capacity.

\* TokenBucket(rate): the rates, with the capacity left out.
SmallBucketArgs == {<<1, 0>>, <<2, 0>>}

\* Time passes, observed every 0.5 s (half a token at rate 1, one token at
\* rate 2); no observer's clock bounds it.
TimeGoesOn ==
    /\ TimePasses(TicksPerSec \div 2)
    /\ obs' = obs

InitContend == BucketStart(SmallBucketArgs, {Tok(j) : j \in StartTokens})

NextContend ==
    \/ \E t \in Tasks : \E n \in 1..MaxTokensArg : WaitCall(t, n)
    \/ \E t \in Tasks : WaitWake(t)
    \/ TimeGoesOn

\* Time passes, and the event loop resumes every task whose sleep is over.
FairContend ==
    /\ WF_vars(TimeGoesOn)
    /\ \A t \in Tasks : WF_vars(WaitWake(t))

SpecContend == InitContend /\ [][NextContend]_vars /\ FairContend

\* Task t sleeps in a call of wait_for_tokens(n) with n above the capacity.
OverCapacity(t) == task[t].pc = "waiting" /\ Tok(task[t].n) > bucket.capacity

\* C36: at a fixed rate, with each of the tasks calling once and the event
\* loop running, wait_for_tokens(n) returns exactly when n <= capacity: a
\* caller with n <= capacity that has to sleep is granted in the end,
\* whoever is granted first; a call with n > capacity never returns and
\* takes nothing, and goes on sleeping and checking without end.
C36_ReturnsIffWithinCapacity ==
    /\ \A t \in Tasks :
         (task[t].pc = "waiting" /\ Tok(task[t].n) <= bucket.capacity)
            ~> (task[t].pc = "done" /\ task[t].outcome = "waited")
    /\ [][\A t \in Tasks :
            /\ \A n \in 1..MaxTokensArg :
                 (WaitCall(t, n) /\ Tok(n) > bucket.capacity)
                 => /\ OverCapacity(t)'
                    /\ obs'.consumed = obs.consumed
                    /\ bucket'.tokens = Refilled(bucket)
            /\ OverCapacity(t)
               => /\ OverCapacity(t)'
                  /\ WaitWake(t) => /\ obs' = obs
                                    /\ bucket'.tokens = Refilled(bucket)]_vars
    /\ \A t \in Tasks :
         /\ [](OverCapacity(t) => <>(OverCapacity(t) /\ task[t].timer = 0))
         /\ [](OverCapacity(t) => <>(OverCapacity(t) /\ task[t].timer > 0))

\* C36 witness: on the bucket of one token, emptied, a caller asking for one
\* token slept and was granted it while a caller asking for two sleeps on.
C36_Witness ==
    /\ bucket.capacity = Tok(1)
    /\ obs.held = 0
    /\ obs.consumed = Tok(1)
    /\ \E t, u \in Tasks :
         /\ OverCapacity(t)
         /\ task[u].pc = "done" /\ task[u].outcome = "waited"

\* --------------------------------------- more claims about the limiter

\* Task t is granted its token in this step: execute goes on to call the
\* operation.
Granted(t) == task[t].pc # "invoking" /\ task'[t].pc = "invoking"

\* C24: refill, check and consume are one step under every interleaving of
\* execute callers: a step that grants a token grants it to one caller and
\* leaves the refilled tokens minus one, so no token is consumed twice; every
\* other step (a failed check, the update_rate of _on_success and
\* _on_rate_limit, a rejected call) leaves the stored or the refilled
\* tokens; and no step ends with the bucket lock held.
C24_AtomicConsume ==
    [][/\ \A t \in Tasks :
            Granted(t)
            => /\ Refilled(bucket) >= Tok(1)
               /\ bucket'.tokens = Refilled(bucket) - Tok(1)
               /\ \A u \in Tasks \ {t} : ~Granted(u)
       /\ (\A t \in Tasks : ~Granted(t))
          => bucket'.tokens \in {bucket.tokens, Refilled(bucket)}
       /\ ~bucket'.locked]_vars

\* C24 witness: one caller took the last token and its operation has ended,
\* changing the bucket's rate, while another caller sleeps in
\* wait_for_tokens between two checks.
C24_Witness ==
    /\ bucket.rate # limiter.base_rate
    /\ ~bucket.locked
    /\ \E t, u \in Tasks :
         /\ task[t].invocations = 1 /\ task[t].outcome \in {"ok", "rate_limit"}
         /\ task[u].pc = "token_sleep" /\ task[u].timer > 0

\* C25: within one execute call the k-th rate-limit signal, k < max_retries,
\* is followed by a sleep of 2^k * 0.5 s (1 s, then 2 s) that starts in the
\* step that cut the rate and recorded the failure; nothing else happens in
\* the call until the sleep is over, and then the loop starts over at the
\* breaker check and the token wait; the max_retries-th signal is followed
\* by no sleep.
C25_Backoff ==
    [][\A t \in Tasks :
         /\ Ended(t, "rate_limit")
            => LET k == task[t].retry_count + 1
               IN /\ task'[t].retry_count = k
                  /\ limiter'.rate_limited_requests = limiter.rate_limited_requests + 1
                  /\ limiter'.current_rate =
                       Max(Times(limiter.current_rate, DecreaseFactor), limiter.min_rate)
                  /\ breaker'.failure_count = breaker.failure_count + 1
                  /\ IF k < MaxRetries
                     THEN /\ task'[t].pc = "backoff"
                          /\ task'[t].timer * 2 = Pow2(k) * TicksPerSec
                          /\ k = 1 => task'[t].timer = TicksPerSec
                          /\ k = 2 => task'[t].timer = 2 * TicksPerSec
                          /\ task'[t].sleeps = task[t].sleeps + 1
                     ELSE /\ task'[t].pc = "done"
                          /\ task'[t].timer = 0
                          /\ task'[t].sleeps = task[t].sleeps
         /\ (task[t].pc = "backoff" /\ task[t].timer > 0)
            => /\ task'[t].pc = "backoff"
               /\ task'[t].invocations = task[t].invocations
               /\ task'[t].timer # task[t].timer => Tick
         /\ (task[t].pc = "backoff" /\ task'[t].pc # "backoff")
            => /\ task[t].timer = 0
               /\ task'[t] = LoopTop(task[t], Sys).task
               /\ breaker' = IsOpen(breaker).breaker]_vars

\* C25 witness: a call is at the start of the 2 s sleep that follows its
\* second signal, having slept 1 s after the first.
C25_Witness ==
    \E t \in Tasks :
        /\ task[t].pc = "backoff"
        /\ task[t].retry_count = 2
        /\ task[t].sleeps = 2
        /\ task[t].timer = 2 * TicksPerSec
        /\ task[t].invocations = 2

\* Task t is in the second of two execute calls made one after the other on
\* a default limiter, no other call having been made.
SecondOfTwo(t) ==
    /\ limiter.base_rate = Tok(DefaultBaseRate)
    /\ calls = 2
    /\ ~task[t].sole
    /\ task[t].pc \notin {"idle"}
    /\ task[t].retry_count > 0
    /\ \A u \in Tasks \ {t} : task[u].pc = "idle"

\* C26: every retry starts at the breaker check, and failure_count is kept
\* from one execute call to the next: a throttle that brings failure_count
\* to the threshold with retries left opens the breaker and starts a backoff
\* shorter than the recovery timeout, and a retry that finds the breaker
\* open within its timeout ends with the circuit-open error without another
\* invocation.  Against an operation that is throttled every time, the
\* second of two consecutive calls on a default limiter has invoked the
\* operation 2 times when the breaker opens and ends there.
C26_RetryMeetsBreaker ==
    /\ [][\A t \in Tasks :
            /\ StartThrottled(t) => breaker'.failure_count = breaker.failure_count
            /\ (Ended(t, "rate_limit") /\ task'[t].pc = "backoff"
                  /\ breaker'.failure_count >= FailureThreshold)
               => /\ breaker'.state = "open" /\ breaker'.age = 0
                  /\ task'[t].timer <= RecoveryTimeout
            /\ (BackoffWake(t) /\ breaker.state = "open" /\ breaker.age <= RecoveryTimeout)
               => /\ task'[t].pc = "done"
                  /\ task'[t].raised = "circuit_open"
                  /\ task'[t].invocations = task[t].invocations]_vars
    /\ [](\A t \in Tasks :
            (/\ SecondOfTwo(t)
             /\ limiter.rate_limited_requests = FailureThreshold
             /\ breaker.state = "open")
            => /\ breaker.failure_count = FailureThreshold
               /\ task[t].invocations = 2
               /\ task[t].retry_count = 2
               /\ task[t].pc \in {"backoff", "done"}
               /\ task[t].pc = "done" => task[t].raised = "circuit_open")

\* C26 witness: the second of two consecutive throttled calls on a default
\* limiter has ended with the circuit-open error after 2 invocations.
C26_Witness ==
    \E t \in Tasks :
        /\ SecondOfTwo(t)
        /\ limiter.rate_limited_requests = FailureThreshold
        /\ breaker.state = "open"
        /\ task[t].pc = "done"
        /\ task[t].raised = "circuit_open"
        /\ task[t].invocations = 2

\* C29: while the breaker is open no caller starts an invocation of the
\* operation, the callers included that passed the breaker check before it
\* opened and were waiting for a token or sleeping their backoff since.
C29_NoInvocationWhileOpen ==
    [][\A t \in Tasks : Granted(t) => breaker'.state # "open"]_vars

\* C29 amended: while the breaker is open no caller passes the breaker
\* check: a call or a retry after its backoff that reaches the check while
\* the breaker is open within its timeout ends with the circuit-open error
\* without an invocation.  A caller that passed the check before the breaker
\* opened and waits for a token is not checked again: when it wakes to a
\* token it invokes the operation, whatever the breaker's state, and these
\* are the only invocations that start while the breaker is open.
C29_CheckedBeforeTheWait ==
    [][\A t \in Tasks :
         /\ ((StartThrottled(t) \/ BackoffWake(t))
                /\ breaker.state = "open" /\ breaker.age <= RecoveryTimeout)
            => /\ ~Granted(t)
               /\ task'[t].pc = "done"
               /\ task'[t].raised = "circuit_open"
         /\ (TokenWake(t) /\ Refilled(bucket) >= Tok(1))
            => /\ Granted(t)
               /\ breaker' = breaker
         /\ (Granted(t) /\ breaker'.state = "open") => TokenWake(t)]_vars

\* C29 witness: a caller that had to wait for its token calls the operation
\* for the first time while the breaker is open, the other caller's fifth
\* failure in a row having opened it.
C29_Witness ==
    /\ breaker.state = "open"
    /\ breaker.failure_count = FailureThreshold
    /\ \E t, u \in Tasks :
         /\ task[t].pc = "invoking" /\ task[t].n = 1
         /\ task[t].retry_count = 0 /\ task[t].invocations = 1
         /\ task[u].pc = "backoff" /\ task[u].retry_count = 2

\* The bucket's rate is set in this step (update_rate from _on_success or
\* _on_rate_limit).
RateUpdated ==
    \E t \in Tasks :
        \/ Ended(t, "rate_limit")
        \/ Ended(t, "ok") /\ limiter.current_rate < limiter.max_rate

C31_BucketFollowsRate ==
    /\ [](bucket.rate = limiter.current_rate)
    /\ [][(limiter'.current_rate # limiter.current_rate \/ bucket'.rate # bucket.rate)
          => /\ RateUpdated
             /\ bucket'.rate = limiter'.current_rate]_vars

\* C31 witness: a success has raised the rate of a default limiter and a
\* rate-limit signal has then cut it, and the bucket runs at the rate the
\* limiter holds.
C31_Witness ==
    /\ limiter.base_rate = Tok(DefaultBaseRate)
    /\ limiter.successful_requests = 1
    /\ limiter.rate_limited_requests = 1
    /\ limiter.current_rate = Times(Tok(11), DecreaseFactor)
    /\ bucket.rate = limiter.current_rate

\* C33: a rate-limit outcome recorded while the breaker is half-open or open
\* leaves it open with failure_count >= failure_threshold and
\* last_failure_time = now, in the step that records it; from then on
\* is_open() is true until more than recovery_timeout has passed, and the
\* breaker becomes half-open only at an is_open() later than that.
C33_FailureRestartsTimeout ==
    [][/\ \A t \in Tasks :
            (Ended(t, "rate_limit") /\ breaker.state \in {"half-open", "open"})
            => /\ breaker'.state = "open"
               /\ breaker'.failure_count = breaker.failure_count + 1
               /\ breaker'.failure_count >= FailureThreshold
               /\ breaker'.stamped /\ breaker'.age = 0
               /\ \A d \in {0, 1, RecoveryTimeout} :
                    IsOpen([breaker' EXCEPT !.age = d]).open
               /\ ~IsOpen([breaker' EXCEPT !.age = RecoveryTimeout + 1]).open
       /\ (breaker.state = "open" /\ breaker'.state = "half-open")
          => breaker.age > RecoveryTimeout
       /\ breaker'.age # breaker.age
          => \/ breaker'.age = 0 /\ \E t \in Tasks : Ended(t, "rate_limit")
             \/ breaker'.age > breaker.age /\ Tick]_vars

\* C33 witness: one caller's two calls brought the breaker to open, the last
\* retry went through as the probe after the recovery timeout, and its
\* rate-limit outcome has just opened the breaker again.
C33_Witness ==
    /\ breaker.state = "open"
    /\ breaker.age = 0
    /\ breaker.failure_count = FailureThreshold + 1
    /\ limiter.rate_limited_requests = FailureThreshold + 1
    /\ limiter.successful_requests = 0
    /\ calls = 2
    /\ \E t \in Tasks :
         /\ task[t].pc = "done" /\ task[t].raised = "operation_rate_limit"
         /\ task[t].retry_count = MaxRetries
         /\ \A u \in Tasks \ {t} : task[u].pc = "idle"

\* The invocations that end in this step with outcome o.
EndedWith(o) == {t \in Tasks : Ended(t, o)}

\* C34: under every interleaving of execute calls each invocation that
\* returns adds exactly one to successful_requests and each invocation that
\* raises the rate-limit signal adds exactly one to rate_limited_requests, one
\* invocation ending per step; every other step (an operation's other error,
\* a rejection by the open breaker, a wait, a sleep, get_stats) leaves both
\* counters.  After the only call so far the counters are that call's
\* throttled attempts and its success.
C34_CountersExact ==
    /\ [][/\ limiter'.successful_requests =
               limiter.successful_requests + Cardinality(EndedWith("ok"))
          /\ limiter'.rate_limited_requests =
               limiter.rate_limited_requests + Cardinality(EndedWith("rate_limit"))
          /\ Cardinality(EndedWith("ok") \cup EndedWith("rate_limit")
                            \cup EndedWith("error")) <= 1]_vars
    /\ [](calls = 1
          => \E t \in Tasks :
                /\ limiter.rate_limited_requests = task[t].retry_count
                /\ limiter.successful_requests = IF task[t].outcome = "ok" THEN 1 ELSE 0)

\* C34 witness: of two calls one was throttled once and then succeeded and
\* the other ended with the operation's own error: one success and one
\* throttle are counted, the error is not.
C34_Witness ==
    /\ limiter.successful_requests = 1
    /\ limiter.rate_limited_requests = 1
    /\ calls = 2
    /\ \E t, u \in Tasks :
         /\ task[t].pc = "done" /\ task[t].outcome = "ok" /\ task[t].retry_count = 1
         /\ task[u].pc = "done" /\ task[u].raised = "operation_error"
         /\ task[u].invocations = 1

\* The invocations task t's call has made, counted from its record: one for
\* each throttled attempt, and the one that is running or that ended the
\* call by returning or by another error.
AttemptsInvoked(tk) ==
    tk.retry_count + (IF tk.pc = "invoking" \/ tk.outcome \in {"ok", "error"} THEN 1 ELSE 0)

\* C35: every invocation of the operation is made in the step in which
\* wait_for_tokens(1) took one token for that attempt: the invocations of a
\* call are its attempts, first or retried, each granted one token of at
\* least one refilled; no other step of a call counts an invocation; and the
\* step that ends an invocation, by a return, a throttle or another error,
\* puts no token back.
C35_TokenPerInvocation ==
    /\ [](\A t \in Tasks : task[t].invocations = AttemptsInvoked(task[t]))
    /\ [][\A t \in Tasks :
            /\ Granted(t)
               => /\ Refilled(bucket) >= Tok(1)
                  /\ bucket'.tokens = Refilled(bucket) - Tok(1)
                  /\ task'[t].invocations =
                       IF task[t].pc \in {"idle", "done"} THEN 1
                       ELSE task[t].invocations + 1
                  /\ task'[t].retry_count =
                       IF task[t].pc \in {"idle", "done"} THEN 0 ELSE task[t].retry_count
            /\ (~Granted(t) /\ task[t].pc \notin {"idle", "done"})
               => task'[t].invocations = task[t].invocations
            /\ (Ended(t, "ok") \/ Ended(t, "rate_limit") \/ Ended(t, "error"))
               => /\ bucket'.tokens <= Refilled(bucket)
                  /\ TokensHeld(bucket') <= TokensHeld(bucket)]_vars

\* C35 witness: the only call so far was throttled, slept its backoff, and
\* has just taken a second token for its second invocation.
C35_Witness ==
    \E t \in Tasks :
        /\ task[t].sole
        /\ \A u \in Tasks \ {t} : task[u].pc = "idle"
        /\ task[t].pc = "invoking"
        /\ task[t].retry_count = 1
        /\ task[t].invocations = 2
        /\ bucket.age = 0
        /\ bucket.tokens = bucket.capacity - Tok(1)

\* C37: whatever the arguments the limiter was built with, a success never
\* lowers current_rate, a rate-limit signal never raises it, and no other
\* step changes it.
C37_RateMovesWithOutcome ==
    [][/\ \A t \in Tasks :
            /\ Ended(t, "ok") => limiter'.current_rate >= limiter.current_rate
            /\ Ended(t, "rate_limit") => limiter'.current_rate <= limiter.current_rate
       /\ (\A t \in Tasks : ~Ended(t, "ok") /\ ~Ended(t, "rate_limit"))
          => limiter'.current_rate = limiter.current_rate]_vars

\* --------------------------------------------- the breaker's specification
\* One CircuitBreaker used directly: record_failure, record_success and
\* is_open called in any order, with time passing by one tick or by the
\* recovery timeout.

\* breaker.record_failure()
DirectRecordFailure ==
    /\ breaker.failure_count < MaxFailures
    /\ breaker' = RecordFailure(breaker)
    /\ UNCHANGED <<limiter, bucket, task, calls, obs>>

\* breaker.record_success()
DirectRecordSuccess ==
    /\ breaker' = RecordSuccess(breaker)
    /\ UNCHANGED <<limiter, bucket, task, calls, obs>>

\* breaker.is_open()
DirectIsOpen ==
    /\ breaker' = IsOpen(breaker).breaker
    /\ UNCHANGED <<limiter, bucket, task, calls, obs>>

\* Time passes for the breaker.
BreakerTick ==
    /\ \E d \in {1, RecoveryTimeout} : TimePasses(d)
    /\ obs' = obs

InitBreaker ==
    LET s == NewLimiter(Tok(DefaultBaseRate), Tok(DefaultMaxRate), Tok(DefaultMinRate))
    IN /\ limiter = s.limiter
       /\ bucket = s.bucket
       /\ breaker = NewBreaker
       /\ task = [t \in Tasks |-> IdleTask]
       /\ calls = 0
       /\ obs = NewObs(s.bucket)

NextBreaker ==
    \/ DirectRecordFailure
    \/ DirectRecordSuccess
    \/ DirectIsOpen
    \/ BreakerTick

SpecBreaker == InitBreaker /\ [][NextBreaker]_vars

\* C11: once is_open() has returned false after the recovery timeout (the
\* state is half-open: a probe is admitted and neither record_success nor
\* record_failure has been called since), a further is_open() reports open
\* and a further call of execute is rejected with the circuit-open error.
C11_SingleProbe ==
    breaker.state = "half-open"
    => /\ IsOpen(breaker).open
       /\ LoopTop(IdleTask, Sys).task.raised = "circuit_open"

\* C12: is_open() on an open breaker within recovery_timeout of the last
\* failure returns true and changes nothing; on an open breaker after more
\* than recovery_timeout it returns false and sets the state to half-open;
\* on a closed or half-open breaker it returns false and changes nothing.
C12_IsOpen ==
    /\ [](LET r == IsOpen(breaker)
          IN /\ (breaker.state = "open" /\ breaker.age <= RecoveryTimeout)
                => (r.open /\ r.breaker = breaker)
             /\ (breaker.state = "open" /\ breaker.age > RecoveryTimeout)
                => (~r.open /\ r.breaker = [breaker EXCEPT !.state = "half-open"])
             /\ breaker.state # "open"
                => (~r.open /\ r.breaker = breaker))
    /\ [][DirectIsOpen
          => breaker' = IF breaker.state = "open" /\ breaker.age > RecoveryTimeout
                        THEN [breaker EXCEPT !.state = "half-open"]
                        ELSE breaker]_vars

\* C12 witness: the first is_open() after the timeout made the breaker
\* half-open, one tick after the timeout was reached.
C12_Witness ==
    /\ breaker.state = "half-open"
    /\ breaker.age = RecoveryTimeout + 1
    /\ breaker.failure_count = FailureThreshold

\* C13: a success (record_success through _on_success) sets failure_count to
\* 0 and the state to closed from closed, open and half-open alike, also
\* when it comes from a request that was in flight when the breaker opened
\* and the recovery timeout has not passed.
C13_SuccessCloses ==
    [][\A t \in Tasks :
          Ended(t, "ok")
          => /\ breaker'.failure_count = 0
             /\ breaker'.state = "closed"
             /\ breaker'.age = breaker.age
             /\ breaker'.stamped = breaker.stamped]_vars

\* C13 witness: the breaker opened, and within the recovery timeout the
\* first success closed it.
C13_Witness ==
    /\ breaker.state = "closed"
    /\ breaker.failure_count = 0
    /\ breaker.age > 0
    /\ breaker.age <= RecoveryTimeout
    /\ limiter.successful_requests = 1
    /\ limiter.rate_limited_requests = FailureThreshold

\* C32: in every reachable state of the breaker, state = closed exactly when
\* failure_count < failure_threshold, and an open or half-open breaker has
\* failure_count >= failure_threshold and last_failure_time set.
C32_StateMatchesCount ==
    /\ breaker.state = "closed" <=> breaker.failure_count < FailureThreshold
    /\ breaker.state \in {"open", "half-open"}
       => /\ breaker.failure_count >= FailureThreshold
          /\ breaker.stamped

\* C32 witness: a failure recorded on the open breaker took failure_count
\* past the threshold, and the breaker became half-open after the timeout.
C32_Witness ==
    /\ breaker.state = "half-open"
    /\ breaker.failure_count > FailureThreshold
    /\ breaker.stamped
    /\ breaker.age > RecoveryTimeout

====
